---- MODULE Spec2Model ----
(***************************************************************************)
(* Model of mnist_loader.py: the IDX decoders loadImages and loadLabels,   *)
(* the one-hot expansion vectorized_digit and the assembler mnist_load.    *)
(*                                                                         *)
(* A source file is modelled by its decompressed byte stream (what         *)
(* gzip.open(...).read delivers).  Each function is one action that runs   *)
(* the whole call, the try body and the finally block included, and        *)
(* records how the call ended: a returned value, or the exception that     *)
(* leaves the call together with the exception that was being handled      *)
(* when it was raised (Python's __context__).                              *)
(***************************************************************************)
EXTENDS Integers, Sequences, FiniteSets, TLC

VARIABLES pc, fn, imageSrc, labelsSrc, n_images, j, result, imagePos, labelsPos

vars == <<pc, fn, imageSrc, labelsSrc, n_images, j, result, imagePos, labelsPos>>

(***************************************************************************)
(* Bounds of the model.                                                    *)
(***************************************************************************)
\* largest entry count declared in a header, and largest number of whole
\* records present in a stream; requested counts range over 0..MaxCount+1
MaxCount == 2
\* vectorized_digit is called directly with j in -MaxDigit..MaxDigit
MaxDigit == 12

(***************************************************************************)
(* Program constants.                                                      *)
(***************************************************************************)
\* 0x03080000: the image magic number as struct.unpack('I', ...) delivers it
IMAGE_MAGIC == 50855936
\* 0x01080000: the label magic number as struct.unpack('I', ...) delivers it
LABEL_MAGIC == 17301504
\* expected rows and columns of an image
DIM == 28
\* length of the vector vectorized_digit builds: np.zeros((10, 1))
VEC_LEN == 10
\* bytes of one struct.unpack('I') / struct.unpack('>I') field
FIELD == 4

\* Python's None (the default of n_images).  Requested counts are never
\* negative here, which leaves -1 free to stand for None; the code's tests
\* "n_images == None" are modelled as tests against this value.
None == 0 - 1

\* the exceptions the code can raise, by the statement that raises them
StructError == "struct.error: unpack requires a buffer of 4 bytes"
InvalidFormat == "Exception: Invalid file: unexpected magic number."
InsufficientDataImages == "Exception: Unable to read {0} entries from data file."
InsufficientDataLabels == "Exception: Unable to read {0} entires from label file."
UnsupportedDimensions == "Exception: Invalid file: expected 28 rows & cols per img"
UnboundLocalError == "UnboundLocalError: local variable 'res' referenced before assignment"
ReshapeValueError == "ValueError: cannot reshape array of size into shape"
IndexError == "IndexError: index is out of bounds for axis 0 with size 10"
\* no exception
NoExc == ""

Min(a, b) == IF a < b THEN a ELSE b

(***************************************************************************)
(* Byte streams and struct.unpack.                                         *)
(***************************************************************************)
\* gz.read(k) at cursor pos: the next k bytes, or fewer at the end of stream
Read(src, pos, k) == SubSeq(src, pos + 1, Min(pos + k, Len(src)))

\* the cursor after gz.read(k) at cursor pos
Advance(src, pos, k) == Min(pos + k, Len(src))

\* struct.unpack('I', b)[0] on a little-endian host ("Modern PCs read in
\* data in least-significant-bytes first")
unpack_native(b) == b[1] + 256 * b[2] + 65536 * b[3] + 16777216 * b[4]

\* struct.unpack('>I', b)[0]: big-endian
unpack_be(b) == 16777216 * b[1] + 65536 * b[2] + 256 * b[3] + b[4]

\* mutant of reshape: the array filled column by column (Fortran order)
reshape_colmajor(res, rows, cols) ==
    [i \in 1..rows |-> [k \in 1..cols |-> res[(k - 1) * rows + i]]]

\* res.reshape((rows, cols)) of a flat array whose size is rows * cols:
\* row-major, row i holds elements i*cols .. i*cols + cols - 1
reshape(res, rows, cols) ==
    [i \in 1..rows |-> SubSeq(res, (i - 1) * cols + 1, i * cols)]

(***************************************************************************)
(* How a call ends.                                                        *)
(***************************************************************************)
Return(v, pos) ==
    [kind |-> "return", value |-> v, exc |-> NoExc, context |-> NoExc, pos |-> pos]

\* exception exc leaves the call; context is the exception that was being
\* handled when exc was raised (NoExc when there was none)
Raise(exc, context, pos) ==
    [kind |-> "raise", value |-> <<>>, exc |-> exc, context |-> context, pos |-> pos]

\* the local variables at the end of the try body: the exception raised in
\* it (NoExc when it ran to its end), whether res is bound, and the cursor
Locals(exc, resBound, res, n, rows, cols, pos) ==
    [exc |-> exc, resBound |-> resBound, res |-> res, n_images |-> n,
     n_rows |-> rows, n_cols |-> cols, pos |-> pos]

(***************************************************************************)
(* loadImages                                                              *)
(***************************************************************************)
\* lines 83-91: the dimensions and the pixel data
loadImagesData(src, n) ==
    LET r == Read(src, 2 * FIELD, FIELD)
        c == Read(src, 3 * FIELD, FIELD)
    IN  IF Len(r) < FIELD
        THEN Locals(StructError, FALSE, <<>>, n, 0, 0, Advance(src, 2 * FIELD, FIELD))
        ELSE IF Len(c) < FIELD
        THEN Locals(StructError, FALSE, <<>>, n, unpack_be(r), 0,
                    Advance(src, 3 * FIELD, FIELD))
        ELSE LET n_rows == unpack_be(r)
                 n_cols == unpack_be(c)
             IN  IF n_rows # DIM \/ n_cols # DIM
                 THEN Locals(UnsupportedDimensions, FALSE, <<>>, n, n_rows, n_cols,
                             4 * FIELD)
                 ELSE Locals(NoExc, TRUE, Read(src, 4 * FIELD, n * n_rows * n_cols),
                             n, n_rows, n_cols,
                             Advance(src, 4 * FIELD, n * n_rows * n_cols))

\* mutant of loadImagesTry: the declared count is read and reshaped instead
\* of the requested one
loadImagesTry_declared(src, n_img) ==
    LET m == Read(src, 0, FIELD)
        c == Read(src, FIELD, FIELD)
    IN  IF Len(m) < FIELD
        THEN Locals(StructError, FALSE, <<>>, n_img, 0, 0, Advance(src, 0, FIELD))
        ELSE IF unpack_native(m) # IMAGE_MAGIC
        THEN Locals(InvalidFormat, FALSE, <<>>, n_img, 0, 0, FIELD)
        ELSE IF Len(c) < FIELD
        THEN Locals(StructError, FALSE, <<>>, n_img, 0, 0, Advance(src, FIELD, FIELD))
        ELSE LET n == unpack_be(c)
             IN  IF n_img # None /\ n_img > n
                 THEN Locals(InsufficientDataImages, FALSE, <<>>, n_img, 0, 0, 2 * FIELD)
                 ELSE loadImagesData(src, n)

\* mutant of loadImagesTry: the dimensions are read and validated before the
\* requested count is compared with the declared count
loadImagesTry_dimsFirst(src, n_img) ==
    LET m == Read(src, 0, FIELD)
        c == Read(src, FIELD, FIELD)
        r == Read(src, 2 * FIELD, FIELD)
        k == Read(src, 3 * FIELD, FIELD)
    IN  IF Len(m) < FIELD
        THEN Locals(StructError, FALSE, <<>>, n_img, 0, 0, Advance(src, 0, FIELD))
        ELSE IF unpack_native(m) # IMAGE_MAGIC
        THEN Locals(InvalidFormat, FALSE, <<>>, n_img, 0, 0, FIELD)
        ELSE IF Len(c) < FIELD \/ Len(r) < FIELD \/ Len(k) < FIELD
        THEN Locals(StructError, FALSE, <<>>, n_img, 0, 0, Len(src))
        ELSE IF unpack_be(r) # DIM \/ unpack_be(k) # DIM
        THEN Locals(UnsupportedDimensions, FALSE, <<>>, n_img, unpack_be(r),
                    unpack_be(k), 4 * FIELD)
        ELSE IF n_img # None /\ n_img > unpack_be(c)
        THEN Locals(InsufficientDataImages, FALSE, <<>>, n_img, unpack_be(r),
                    unpack_be(k), 4 * FIELD)
        ELSE loadImagesData(src, IF n_img = None THEN unpack_be(c) ELSE n_img)

\* lines 60-91: the body of the try statement
loadImagesTry(src, n_img) ==
    LET m == Read(src, 0, FIELD)
        c == Read(src, FIELD, FIELD)
    IN  IF Len(m) < FIELD
        THEN Locals(StructError, FALSE, <<>>, n_img, 0, 0, Advance(src, 0, FIELD))
        ELSE IF unpack_native(m) # IMAGE_MAGIC
        THEN Locals(InvalidFormat, FALSE, <<>>, n_img, 0, 0, FIELD)
        ELSE IF Len(c) < FIELD
        THEN Locals(StructError, FALSE, <<>>, n_img, 0, 0, Advance(src, FIELD, FIELD))
        ELSE LET n == unpack_be(c)
             IN  IF n_img = None
                 THEN loadImagesData(src, n)
                 ELSE IF n_img > n
                 THEN Locals(InsufficientDataImages, FALSE, <<>>, n_img, 0, 0, 2 * FIELD)
                 ELSE loadImagesData(src, n_img)

\* mutant of loadImagesFinally: res starts as an empty array before the try
\* statement, so that the return succeeds whenever n_images, n_rows and
\* n_cols are bound and the sizes agree
loadImagesFinally_initRes(t) ==
    IF t.exc \notin {NoExc, UnsupportedDimensions}
    THEN Raise(UnboundLocalError, t.exc, t.pos)
    ELSE IF Len(t.res) # t.n_images * (t.n_rows * t.n_cols)
    THEN Raise(ReshapeValueError, t.exc, t.pos)
    ELSE [Return(reshape(t.res, t.n_images, t.n_rows * t.n_cols), t.pos)
              EXCEPT !.context = t.exc]

\* mutant of loadImagesFinally: the number of records is inferred from the
\* bytes read, res.reshape((-1, n_rows * n_cols))
loadImagesFinally_infer(t) ==
    IF ~t.resBound
    THEN Raise(UnboundLocalError, t.exc, t.pos)
    ELSE IF Len(t.res) % (t.n_rows * t.n_cols) # 0
    THEN Raise(ReshapeValueError, t.exc, t.pos)
    ELSE [Return(reshape(t.res, Len(t.res) \div (t.n_rows * t.n_cols),
                         t.n_rows * t.n_cols), t.pos)
              EXCEPT !.context = t.exc]

\* lines 92-95: the finally block, "return res.reshape((n_images, n_rows * n_cols))".
\* It runs however the try body ended; an unbound res raises
\* UnboundLocalError, a size that is not n_images * n_rows * n_cols raises
\* ValueError, and a successful return discards the exception in flight
\* (kept in the context field of the returned record).
loadImagesFinally(t) ==
    IF ~t.resBound
    THEN Raise(UnboundLocalError, t.exc, t.pos)
    ELSE IF Len(t.res) # t.n_images * (t.n_rows * t.n_cols)
    THEN Raise(ReshapeValueError, t.exc, t.pos)
    ELSE [Return(reshape(t.res, t.n_images, t.n_rows * t.n_cols), t.pos)
              EXCEPT !.context = t.exc]

loadImages(src, n_img) == loadImagesFinally(loadImagesTry(src, n_img))

(***************************************************************************)
(* loadLabels                                                              *)
(***************************************************************************)
\* mutant of loadLabelsTry: "if not n_images" in place of
\* "if n_images == None", which takes a requested count of 0 for no count
loadLabelsTry_falsy(src, n_img) ==
    LET m == Read(src, 0, FIELD)
        c == Read(src, FIELD, FIELD)
    IN  IF Len(m) < FIELD
        THEN Locals(StructError, FALSE, <<>>, n_img, 0, 0, Advance(src, 0, FIELD))
        ELSE IF unpack_native(m) # LABEL_MAGIC
        THEN Locals(InvalidFormat, FALSE, <<>>, n_img, 0, 0, FIELD)
        ELSE IF Len(c) < FIELD
        THEN Locals(StructError, FALSE, <<>>, n_img, 0, 0, Advance(src, FIELD, FIELD))
        ELSE LET n == unpack_be(c)
                 k == IF n_img = None \/ n_img = 0 THEN n ELSE n_img
             IN  IF k > n
                 THEN Locals(InsufficientDataLabels, FALSE, <<>>, n_img, 0, 0, 2 * FIELD)
                 ELSE Locals(NoExc, TRUE, Read(src, 2 * FIELD, k), k, 0, 0,
                             Advance(src, 2 * FIELD, k))

\* lines 110-125: the body of the try statement
loadLabelsTry(src, n_img) ==
    LET m == Read(src, 0, FIELD)
        c == Read(src, FIELD, FIELD)
    IN  IF Len(m) < FIELD
        THEN Locals(StructError, FALSE, <<>>, n_img, 0, 0, Advance(src, 0, FIELD))
        ELSE IF unpack_native(m) # LABEL_MAGIC
        THEN Locals(InvalidFormat, FALSE, <<>>, n_img, 0, 0, FIELD)
        ELSE IF Len(c) < FIELD
        THEN Locals(StructError, FALSE, <<>>, n_img, 0, 0, Advance(src, FIELD, FIELD))
        ELSE LET n == unpack_be(c)
                 k == IF n_img = None THEN n ELSE n_img
             IN  IF n_img # None /\ n_img > n
                 THEN Locals(InsufficientDataLabels, FALSE, <<>>, n_img, 0, 0, 2 * FIELD)
                 ELSE Locals(NoExc, TRUE, Read(src, 2 * FIELD, k), k, 0, 0,
                             Advance(src, 2 * FIELD, k))

\* lines 126-128: the finally block, "return res.reshape((n_images, 1))"
loadLabelsFinally(t) ==
    IF ~t.resBound
    THEN Raise(UnboundLocalError, t.exc, t.pos)
    ELSE IF Len(t.res) # t.n_images * 1
    THEN Raise(ReshapeValueError, t.exc, t.pos)
    ELSE [Return(reshape(t.res, t.n_images, 1), t.pos) EXCEPT !.context = t.exc]

loadLabels(src, n_img) == loadLabelsFinally(loadLabelsTry(src, n_img))

(***************************************************************************)
(* vectorized_digit                                                        *)
(***************************************************************************)
\* e = np.zeros((10, 1)): rows 0..9, all 0.0
zeros == [i \in 0..(VEC_LEN - 1) |-> 0]

\* mutant of RowIndex: the index wraps around the vector
RowIndex_wrap(d) == d % VEC_LEN

\* the row that e[d] addresses: a negative index counts from the end
RowIndex(d) == IF d < 0 THEN d + VEC_LEN ELSE d

\* lines 151-154: e[d] = 1.0 raises IndexError outside -10..9
vectorized_digit(d) ==
    IF RowIndex(d) < 0 \/ RowIndex(d) > VEC_LEN - 1
    THEN Raise(IndexError, NoExc, 0)
    ELSE Return([zeros EXCEPT ![RowIndex(d)] = 1], 0)

(***************************************************************************)
(* mnist_load                                                              *)
(***************************************************************************)
\* mutant of vectorizeFrom: each vector is put in front of the list
RECURSIVE vectorizeFrom_prepend(_, _, _)
vectorizeFrom_prepend(labels, i, acc) ==
    IF i > Len(labels)
    THEN Return(acc, 0)
    ELSE LET vd == vectorized_digit(labels[i][1])
         IN  IF vd.kind = "raise"
             THEN vd
             ELSE vectorizeFrom_prepend(labels, i + 1, <<vd.value>> \o acc)

\* lines 139-142: the loop over the rows of labels; each row is a one-element
\* array [b] and e[[b]] = 1.0 sets row b.  The first failing expansion
\* raises out of the loop.
RECURSIVE vectorizeFrom(_, _, _)
vectorizeFrom(labels, i, acc) ==
    IF i > Len(labels)
    THEN Return(acc, 0)
    ELSE LET vd == vectorized_digit(labels[i][1])
         IN  IF vd.kind = "raise"
             THEN vd
             ELSE vectorizeFrom(labels, i + 1, Append(acc, vd.value))

\* lines 137-143; the result records the cursors of both streams
mnist_load(imgSrc, lblSrc, n_img) ==
    LET images == loadImages(imgSrc, n_img)
        labels == loadLabels(lblSrc, n_img)
        vl == vectorizeFrom(labels.value, 1, <<>>)
    IN  IF images.kind = "raise"
        THEN [r |-> images, ipos |-> images.pos, lpos |-> 0]
        ELSE IF labels.kind = "raise"
        THEN [r |-> labels, ipos |-> images.pos, lpos |-> labels.pos]
        ELSE IF vl.kind = "raise"
        THEN [r |-> vl, ipos |-> images.pos, lpos |-> labels.pos]
        ELSE [r |-> Return(<<images.value, vl.value>>, 0),
              ipos |-> images.pos, lpos |-> labels.pos]

(***************************************************************************)
(* The files the functions are called on.                                  *)
(***************************************************************************)
\* the 4 header bytes of a big-endian field holding v < 65536
Field(v) == <<0, 0, v \div 256, v % 256>>

\* magic fields: image, label, image with its first byte corrupted, and the
\* image magic stored least-significant byte first
MagicFields == {<<0, 0, 8, 3>>, <<0, 0, 8, 1>>, <<1, 0, 8, 3>>, <<3, 8, 0, 0>>}

\* declared counts 0..MaxCount, and one count that needs its third byte
CountFields == {Field(d) : d \in 0..MaxCount} \cup {Field(256)}

\* rows: 28, 27, and 28 stored least-significant byte first
RowFields == {Field(DIM), Field(DIM - 1), <<DIM, 0, 0, 0>>}

\* columns: 28 and 29
ColFields == {Field(DIM), Field(DIM + 1)}

\* len pixel bytes, all different within a record and from record to record
PixelData(len, seed) == [p \in 1..len |-> (37 * (p - 1) + seed) % 256]

\* data lengths: whole records, and records cut after 1 or 783 bytes
DataLens == {a * DIM * DIM + e : a \in 0..MaxCount, e \in {0, 1, DIM * DIM - 1}}

ImageFile(magic, count, rows, cols, len, seed) ==
    magic \o count \o rows \o cols \o PixelData(len, seed)

\* every prefix of s that ends inside or just before a header field
HeaderCuts(s) == {SubSeq(s, 1, Min(c, Len(s))) : c \in {0, 3, 4, 7, 8, 11, 12, 15}}

ImageFiles ==
    LET full == {ImageFile(m, c, r, k, len, seed) :
                    m \in MagicFields, c \in CountFields, r \in RowFields,
                    k \in ColFields, len \in DataLens, seed \in {1, 2}}
    IN  full \cup UNION {HeaderCuts(s) : s \in full}

\* all byte sequences over S of length 0..n
RECURSIVE SeqsUpTo(_, _)
SeqsUpTo(S, n) ==
    IF n = 0 THEN {<<>>}
    ELSE LET shorter == SeqsUpTo(S, n - 1)
         IN  shorter \cup {Append(s, b) : s \in {x \in shorter : Len(x) = n - 1}, b \in S}

LabelFile(magic, count, data) == magic \o count \o data

LabelFiles ==
    LET full == {LabelFile(m, c, d) :
                    m \in MagicFields, c \in CountFields,
                    d \in SeqsUpTo({0, 9, 10, 255}, MaxCount + 1)}
    IN  full \cup UNION {HeaderCuts(s) : s \in full}

\* requested counts: none, or 0..MaxCount+1
Requests == {None} \cup 0..(MaxCount + 1)

\* the file pairs mnist_load is called on: image files with every declared
\* count and every number of whole records, one cut inside its first record,
\* one with the label magic and one with 27 rows; label files with every
\* declared count and every label sequence over {3, 7, 10}, and one with the
\* image magic
MnistImageFiles ==
    {ImageFile(<<0, 0, 8, 3>>, Field(d), Field(DIM), Field(DIM), len, 1) :
        d \in 0..MaxCount,
        len \in {a * DIM * DIM : a \in 0..MaxCount} \cup {DIM * DIM - 1}}
    \cup {ImageFile(<<0, 0, 8, 1>>, Field(MaxCount), Field(DIM), Field(DIM),
                    MaxCount * DIM * DIM, 1),
          ImageFile(<<0, 0, 8, 3>>, Field(MaxCount), Field(DIM - 1), Field(DIM),
                    MaxCount * DIM * DIM, 1)}

MnistLabelFiles ==
    {LabelFile(<<0, 0, 8, 1>>, Field(d), data) :
        d \in 0..MaxCount, data \in SeqsUpTo({3, 7, 10}, MaxCount)}
    \cup {LabelFile(<<0, 0, 8, 3>>, Field(MaxCount), [i \in 1..MaxCount |-> 7])}

(***************************************************************************)
(* The state machine: one call at a time, each call one action.            *)
(***************************************************************************)
NoResult == [kind |-> "none", value |-> <<>>, exc |-> NoExc, context |-> NoExc, pos |-> 0]

Init ==
    /\ pc = "idle"
    /\ fn = "none"
    /\ imageSrc = <<>>
    /\ labelsSrc = <<>>
    /\ n_images = None
    /\ j = 0
    /\ result = NoResult
    /\ imagePos = 0
    /\ labelsPos = 0

\* loadImages(src, n_images)
LoadImages ==
    /\ pc = "idle"
    /\ \E src \in ImageFiles, n \in Requests :
          LET r == loadImages(src, n)
          IN  /\ imageSrc' = src
              /\ n_images' = n
              /\ result' = r
              /\ imagePos' = r.pos
    /\ pc' = "done"
    /\ fn' = "loadImages"
    /\ UNCHANGED <<labelsSrc, j, labelsPos>>

\* loadLabels(src, n_images)
LoadLabels ==
    /\ pc = "idle"
    /\ \E src \in LabelFiles, n \in Requests :
          LET r == loadLabels(src, n)
          IN  /\ labelsSrc' = src
              /\ n_images' = n
              /\ result' = r
              /\ labelsPos' = r.pos
    /\ pc' = "done"
    /\ fn' = "loadLabels"
    /\ UNCHANGED <<imageSrc, j, imagePos>>

\* mnist_load(imageSrc, labelsSrc, n_images)
MnistLoad ==
    /\ pc = "idle"
    /\ \E isrc \in MnistImageFiles, lsrc \in MnistLabelFiles, n \in Requests :
          LET m == mnist_load(isrc, lsrc, n)
          IN  /\ imageSrc' = isrc
              /\ labelsSrc' = lsrc
              /\ n_images' = n
              /\ result' = m.r
              /\ imagePos' = m.ipos
              /\ labelsPos' = m.lpos
    /\ pc' = "done"
    /\ fn' = "mnist_load"
    /\ UNCHANGED j

\* vectorized_digit(j)
VectorizedDigit ==
    /\ pc = "idle"
    /\ \E d \in (0 - MaxDigit)..MaxDigit :
          /\ j' = d
          /\ result' = vectorized_digit(d)
    /\ pc' = "done"
    /\ fn' = "vectorized_digit"
    /\ UNCHANGED <<imageSrc, labelsSrc, n_images, imagePos, labelsPos>>

\* the call is over and its streams and result are dropped; the script goes
\* on to its next call
NextCall ==
    /\ pc = "done"
    /\ pc' = "idle"
    /\ fn' = "none"
    /\ imageSrc' = <<>>
    /\ labelsSrc' = <<>>
    /\ n_images' = None
    /\ j' = 0
    /\ result' = NoResult
    /\ imagePos' = 0
    /\ labelsPos' = 0

Next == LoadImages \/ LoadLabels \/ MnistLoad \/ VectorizedDigit \/ NextCall

Spec == Init /\ [][Next]_vars

(***************************************************************************)
(* The layout of a file, read off the stream itself.                       *)
(***************************************************************************)
\* bytes of one image record
RecordLen == DIM * DIM
\* offset of the first pixel byte of an image file, and of the first label
ImageDataAt == 4 * FIELD
LabelDataAt == 2 * FIELD

HasImageMagic(src) == Len(src) >= FIELD /\ SubSeq(src, 1, 4) = <<0, 0, 8, 3>>
HasLabelMagic(src) == Len(src) >= FIELD /\ SubSeq(src, 1, 4) = <<0, 0, 8, 1>>
\* the big-endian header field that starts at byte offset off
FieldAt(src, off) ==
    16777216 * src[off + 1] + 65536 * src[off + 2] + 256 * src[off + 3] + src[off + 4]
DeclaredCount(src) == FieldAt(src, 4)

ImageHeaderValid(src) ==
    /\ Len(src) >= ImageDataAt
    /\ HasImageMagic(src)
    /\ FieldAt(src, 8) = 28
    /\ FieldAt(src, 12) = 28
LabelHeaderValid(src) == Len(src) >= LabelDataAt /\ HasLabelMagic(src)

\* the count a call with argument n is to deliver from file src
Wanted(src, n) == IF n = None THEN DeclaredCount(src) ELSE n

\* some validation of a loadImages / loadLabels call cannot succeed
ImageFails(src, n) ==
    \/ ~ImageHeaderValid(src)
    \/ (n # None /\ n > DeclaredCount(src))
    \/ Len(src) - ImageDataAt < Wanted(src, n) * RecordLen
LabelFails(src, n) ==
    \/ ~LabelHeaderValid(src)
    \/ (n # None /\ n > DeclaredCount(src))
    \/ Len(src) - LabelDataAt < Wanted(src, n)

\* record i (from 1) of an image file, and label i (from 1) of a label file
RecordOf(src, i) ==
    SubSeq(src, ImageDataAt + (i - 1) * RecordLen + 1, ImageDataAt + i * RecordLen)
LabelOf(src, i) == src[LabelDataAt + i]

\* the one-hot vector of digit d
OneHot(d) == [x \in 0..9 |-> IF x = d THEN 1 ELSE 0]

Done(f) == pc = "done" /\ fn = f
Failed == result.kind = "raise" /\ result.value = <<>>

(***************************************************************************)
(* The claims.                                                             *)
(***************************************************************************)

\* C1: for an image stream with the image magic number, rows = cols = 28,
\* declared count D and at least n*784 data bytes, loadImages with a count
\* n in 0..D returns exactly n records of exactly 784 byte values each; with
\* no count it uses n = D and returns exactly D records.
Thm_C1 ==
    (/\ Done("loadImages")
     /\ ImageHeaderValid(imageSrc)
     /\ (n_images = None \/ n_images <= DeclaredCount(imageSrc))
     /\ Len(imageSrc) - 16 >= Wanted(imageSrc, n_images) * 784)
    => /\ result.kind = "return"
       /\ Len(result.value) = Wanted(imageSrc, n_images)
       /\ \A i \in 1..Len(result.value) :
             /\ Len(result.value[i]) = 784
             /\ \A k \in 1..784 : result.value[i][k] \in 0..255

\* a call without a count on a file that declares and holds two or more records
Wit_C1 ==
    /\ Done("loadImages")
    /\ n_images = None
    /\ ImageHeaderValid(imageSrc)
    /\ DeclaredCount(imageSrc) >= 2
    /\ result.kind = "return"
    /\ Len(result.value) = DeclaredCount(imageSrc)

\* C2: decoding preserves stream order byte for byte: after a successful
\* loadImages, byte k of record i is the stream byte at offset
\* 16 + i*784 + k (i and k counted from 0), so records encoded behind a
\* header come back unchanged and in order.
Thm_C2 ==
    (Done("loadImages") /\ result.kind = "return")
    => \A i \in 0..(Len(result.value) - 1) : \A k \in 0..783 :
          result.value[i + 1][k + 1] = imageSrc[16 + i * 784 + k + 1]

\* two records decoded, and they differ
Wit_C2 ==
    /\ Done("loadImages")
    /\ result.kind = "return"
    /\ Len(result.value) >= 2
    /\ result.value[1] # result.value[2]
    /\ result.value[2] = RecordOf(imageSrc, 2)

\* C3 (as claimed): for loadImages and loadLabels, a requested count above
\* the declared count of a stream with a valid magic number fails with the
\* InsufficientData error, "Unable to read {0} entries".
Cex_C3 ==
    /\ (/\ Done("loadImages")
        /\ HasImageMagic(imageSrc)
        /\ Len(imageSrc) >= 2 * FIELD
        /\ n_images # None
        /\ n_images > DeclaredCount(imageSrc))
       => (result.kind = "raise" /\ result.exc = InsufficientDataImages)
    /\ (/\ Done("loadLabels")
        /\ HasLabelMagic(labelsSrc)
        /\ Len(labelsSrc) >= 2 * FIELD
        /\ n_images # None
        /\ n_images > DeclaredCount(labelsSrc))
       => (result.kind = "raise" /\ result.exc = InsufficientDataLabels)

\* C4 (as claimed): a stream whose first 4 bytes are not the magic number of
\* the expected kind (00 00 08 03 for loadImages, 00 00 08 01 for
\* loadLabels) fails with the InvalidFormat error, and nothing after the
\* magic number is read.
Cex_C4 ==
    /\ (Done("loadImages") /\ Len(imageSrc) >= FIELD /\ ~HasImageMagic(imageSrc))
       => (result.kind = "raise" /\ result.exc = InvalidFormat /\ imagePos = FIELD)
    /\ (Done("loadLabels") /\ Len(labelsSrc) >= FIELD /\ ~HasLabelMagic(labelsSrc))
       => (result.kind = "raise" /\ result.exc = InvalidFormat /\ labelsPos = FIELD)

\* C5: no partial result is returned: in loadImages, loadLabels and
\* mnist_load, when a validation fails (short header, bad magic, unsupported
\* dimensions, requested count above the declared count, fewer data bytes
\* than required) the call ends in an exception and returns no array, and a
\* return from a finally block never discards an exception in flight.
Thm_C5 ==
    pc = "done" =>
       /\ (fn = "loadImages" /\ ImageFails(imageSrc, n_images)) => Failed
       /\ (fn = "loadLabels" /\ LabelFails(labelsSrc, n_images)) => Failed
       /\ (fn = "mnist_load"
             /\ (ImageFails(imageSrc, n_images) \/ LabelFails(labelsSrc, n_images)))
          => Failed
       /\ result.kind = "return" => result.context = NoExc

\* zero records requested from a file with unsupported dimensions: the
\* finally block runs with the dimension exception in flight
Wit_C5 ==
    /\ Done("loadImages")
    /\ n_images = 0
    /\ Len(imageSrc) >= ImageDataAt
    /\ HasImageMagic(imageSrc)
    /\ FieldAt(imageSrc, 8) # 28
    /\ result.kind = "raise"
    /\ result.context = UnsupportedDimensions

\* C6: one-hot expansion of j in 0..9 is a vector of length 10 with 1.0 at
\* index j and 0.0 elsewhere; expansion of j > 9 fails with the
\* out-of-range error (IndexError) and produces no vector, also inside
\* mnist_load when a decoded label byte exceeds 9.
Thm_C6 ==
    /\ (Done("vectorized_digit") /\ j \in 0..9)
       => /\ result.kind = "return"
          /\ DOMAIN result.value = 0..9
          /\ \A x \in 0..9 : result.value[x] = IF x = j THEN 1 ELSE 0
    /\ (Done("vectorized_digit") /\ j > 9)
       => (result.kind = "raise" /\ result.exc = IndexError)
    /\ (/\ Done("mnist_load")
        /\ ~ImageFails(imageSrc, n_images)
        /\ ~LabelFails(labelsSrc, n_images)
        /\ \E i \in 1..Wanted(labelsSrc, n_images) : LabelOf(labelsSrc, i) > 9)
       => (result.kind = "raise" /\ result.exc = IndexError)

\* the expansion of 9, the largest digit
Wit_C6 ==
    /\ Done("vectorized_digit")
    /\ j = 9
    /\ result.kind = "return"
    /\ result.value[9] = 1
    /\ result.value[0] = 0

\* C7: when mnist_load(imageSrc, labelsSrc, n) returns for n >= 0, the image
\* sequence and the label-vector sequence both have length n and are paired
\* by position: entry i is record i of the image file and the one-hot
\* vector of label byte i of the label file; no other length is returned.
Thm_C7 ==
    (Done("mnist_load") /\ n_images # None /\ result.kind = "return")
    => /\ Len(result.value[1]) = n_images
       /\ Len(result.value[2]) = n_images
       /\ \A i \in 1..n_images :
             /\ result.value[1][i] = RecordOf(imageSrc, i)
             /\ result.value[2][i] = OneHot(LabelOf(labelsSrc, i))

\* two pairs returned, with different labels
Wit_C7 ==
    /\ Done("mnist_load")
    /\ n_images >= 2
    /\ result.kind = "return"
    /\ Len(result.value[2]) = n_images
    /\ LabelOf(labelsSrc, 1) # LabelOf(labelsSrc, 2)

\* C8: mnist_load with n = 0 on image and label files with valid headers
\* returns zero image records and zero label vectors without an error,
\* whatever the two declared counts are.
Thm_C8 ==
    (/\ Done("mnist_load")
     /\ n_images = 0
     /\ ImageHeaderValid(imageSrc)
     /\ LabelHeaderValid(labelsSrc))
    => /\ result.kind = "return"
       /\ result.value = <<<<>>, <<>>>>

\* n = 0 on files that declare different, non-zero counts and hold data
Wit_C8 ==
    /\ Done("mnist_load")
    /\ n_images = 0
    /\ ImageHeaderValid(imageSrc)
    /\ LabelHeaderValid(labelsSrc)
    /\ DeclaredCount(imageSrc) > DeclaredCount(labelsSrc)
    /\ DeclaredCount(labelsSrc) > 0
    /\ Len(labelsSrc) > LabelDataAt
    /\ result.kind = "return"

\* C9: when the header is valid and the declared count admits the requested
\* count n, but fewer than n*784 image bytes (fewer than n label bytes)
\* follow the header, the decoder fails with the truncation error, which in
\* the code is the ValueError of the reshape in the finally block, raised
\* with no other exception in flight; a stream cut inside a record is one
\* such case.
Thm_C9 ==
    /\ (/\ Done("loadImages")
        /\ ImageHeaderValid(imageSrc)
        /\ (n_images = None \/ n_images <= DeclaredCount(imageSrc))
        /\ Len(imageSrc) - 16 < Wanted(imageSrc, n_images) * 784)
       => /\ result.kind = "raise"
          /\ result.exc = ReshapeValueError
          /\ result.context = NoExc
    /\ (/\ Done("loadLabels")
        /\ LabelHeaderValid(labelsSrc)
        /\ (n_images = None \/ n_images <= DeclaredCount(labelsSrc))
        /\ Len(labelsSrc) - 8 < Wanted(labelsSrc, n_images))
       => /\ result.kind = "raise"
          /\ result.exc = ReshapeValueError
          /\ result.context = NoExc

\* two records requested and declared, the stream cut one byte before the
\* end of the second
Wit_C9 ==
    /\ Done("loadImages")
    /\ ImageHeaderValid(imageSrc)
    /\ n_images = 2
    /\ DeclaredCount(imageSrc) >= 2
    /\ Len(imageSrc) - 16 = 2 * 784 - 1
    /\ result.exc = ReshapeValueError

\* C10 (as claimed): loadImages validates the dimensions before it compares
\* the requested count with the declared count: an image stream with a
\* valid magic number whose rows or columns differ from 28 fails with
\* UnsupportedDimensions, also when the requested count exceeds the
\* declared count.  Stated in the reading most favourable to the claim:
\* UnsupportedDimensions is the exception that leaves the call or the one
\* it was raised on top of.
Cex_C10 ==
    (/\ Done("loadImages")
     /\ Len(imageSrc) >= ImageDataAt
     /\ HasImageMagic(imageSrc)
     /\ (FieldAt(imageSrc, 8) # 28 \/ FieldAt(imageSrc, 12) # 28))
    => /\ result.kind = "raise"
       /\ (result.exc = UnsupportedDimensions \/ result.context = UnsupportedDimensions)

\* C10 (amended): loadImages compares the requested count with the declared
\* count before it reads the dimensions.  For an image stream with a valid
\* magic number and a complete header whose rows or columns differ from 28,
\* the call always ends in an exception; the exception raised in the try
\* block is the count error when the requested count exceeds the declared
\* count (the dimension fields are then never read) and the dimension error
\* otherwise, and the exception that leaves the call is the
\* UnboundLocalError of the finally block raised on top of it.
Thm_C10 ==
    (/\ Done("loadImages")
     /\ Len(imageSrc) >= ImageDataAt
     /\ HasImageMagic(imageSrc)
     /\ (FieldAt(imageSrc, 8) # 28 \/ FieldAt(imageSrc, 12) # 28))
    => /\ result.kind = "raise"
       /\ result.exc = UnboundLocalError
       /\ IF n_images # None /\ n_images > DeclaredCount(imageSrc)
          THEN result.context = InsufficientDataImages /\ imagePos = 2 * FIELD
          ELSE result.context = UnsupportedDimensions /\ imagePos = 4 * FIELD

\* unsupported dimensions and a requested count above the declared count
Wit_C10 ==
    /\ Done("loadImages")
    /\ Len(imageSrc) >= ImageDataAt
    /\ HasImageMagic(imageSrc)
    /\ FieldAt(imageSrc, 8) # 28
    /\ n_images # None
    /\ n_images > DeclaredCount(imageSrc)
    /\ result.context = InsufficientDataImages

====
